---- MODULE Spec2Model ----
(***************************************************************************)
(* Model of the parametric-curve computation engine of the backend:        *)
(* the registry of distributions/models, the request validator, the        *)
(* compute endpoint and the computation units.                             *)
(*                                                                         *)
(* A second specification, FitSpec, is a LinearRegression object under the  *)
(* calls fit, predict and get_params; FairFitSpec is FitSpec with the loop  *)
(* of the gradient descent executed fairly.  WorkerSpec is the computation  *)
(* called from two threads of one process that share the global random     *)
(* number generator.                                                       *)
(*                                                                         *)
(* Real numbers are fixed-point integers in hundredths (Scale == 100), so  *)
(* 0.1 is 10 and 1.0 is 100.  A float is a record [k, v]: k = "fin" with   *)
(* the fixed-point value v, k = "nan", or k = "inf" with sign v.            *)
(***************************************************************************)
EXTENDS Integers, Sequences, FiniteSets, TLC

\* ------------------------------------------------------------------ bounds

\* largest sample count the model computes with (the program allows 10000)
MaxN == 11

\* ------------------------------------------------------------------ floats

Scale == 100

Fin(v) == [k |-> "fin", v |-> v]
NaN == [k |-> "nan", v |-> 0]
PosInf == [k |-> "inf", v |-> 1]
NegInf == [k |-> "inf", v |-> -1]

\* math.isnan / math.isinf
isnan(x) == x.k = "nan"
isinf(x) == x.k = "inf"
IsFinite(x) == x.k = "fin"

\* IEEE-754 x <= y as Python evaluates it: every comparison with NaN is false
Le(x, y) ==
    IF isnan(x) \/ isnan(y) THEN FALSE
    ELSE IF IsFinite(x) /\ IsFinite(y) THEN x.v <= y.v
    ELSE IF isinf(x) /\ x.v = -1 THEN TRUE
    ELSE IF isinf(y) /\ y.v = 1 THEN TRUE
    ELSE FALSE

\* IEEE-754 x >= y
Ge(x, y) == Le(y, x)

\* ------------------------------------------------------- results of calls

NoValue == [none |-> TRUE]
Ok(val) == [ok |-> TRUE, exc |-> "", kind |-> "", names |-> {}, val |-> val]
\* exc is the Python exception class, kind the error kind of the design
Raise(exc, kind, names) ==
    [ok |-> FALSE, exc |-> exc, kind |-> kind, names |-> names, val |-> NoValue]

\* ------------------------------------------------------------ descriptors

\* class DistributionType(str, Enum)
DistributionType == {"uniform", "exponential", "linear_regression"}

DistributionParameter(name, default_value, min_value, max_value, step) ==
    [name |-> name, default_value |-> default_value, min_value |-> min_value,
     max_value |-> max_value, step |-> step]

\* the fields of DistributionParameter in their declaration order, the order
\* in which their values are validated
ParameterFields ==
    << "name", "label", "description", "default_value", "min_value", "max_value",
       "step" >>

\* the fields validated before the given one: what info.data holds when the
\* given field's validator runs
ValidatedBefore(field) ==
    LET at == CHOOSE i \in 1..Len(ParameterFields) : ParameterFields[i] = field
    IN { ParameterFields[j] : j \in 1..(at - 1) }

\* DistributionParameter.validate_default_in_range(v, info): TRUE when v passes
validate_default_in_range(v, data) ==
    IF "min_value" \in DOMAIN data /\ "max_value" \in DOMAIN data
    THEN Le(data["min_value"], v) /\ Le(v, data["max_value"])
    ELSE TRUE

\* DistributionParameter.validate_min_max (model_validator, mode="after")
validate_min_max(self) == ~Ge(self.min_value, self.max_value)

\* DistributionParameter(name=..., default_value=..., ...): the field
\* validators in declaration order, then the model validator
DistributionParameterInit(default_value, min_value, max_value, step) ==
    LET args == [name |-> Fin(0), label |-> Fin(0), description |-> Fin(0),
                 default_value |-> default_value, min_value |-> min_value,
                 max_value |-> max_value, step |-> step]
        data == [f \in ValidatedBefore("default_value") |-> args[f]]
        errors ==
            (IF validate_default_in_range(default_value, data)
             THEN {} ELSE {"default_value"})
            \cup (IF step.k = "fin" /\ step.v > 0 THEN {} ELSE {"step"})
    IN IF errors # {} THEN Raise("ValueError", "ParameterInvalid", errors)
       ELSE IF ~validate_min_max(args)
       THEN Raise("ValueError", "ParameterInvalid", {"min_value", "max_value"})
       ELSE Ok(args)

\* UniformDistribution.get_info
UniformInfo ==
    [type |-> "uniform",
     parameters |-> << DistributionParameter("a", 0, -1000, 1000, 10),
                       DistributionParameter("b", 100, -1000, 1000, 10) >>]

\* ExponentialDistribution.get_info: one rate parameter, domain exclusive of 0
ExponentialInfo ==
    [type |-> "exponential",
     parameters |-> << DistributionParameter("lambda_", 100, 10, 1000, 10) >>]

\* the regression descriptor with a noise_std default of 0, below its minimum
LinearRegressionInfoZeroNoise ==
    [type |-> "linear_regression",
     parameters |-> << DistributionParameter("slope", 100, -500, 500, 10),
                       DistributionParameter("noise_std", 0, 10, 500, 10),
                       DistributionParameter("pattern_id", 0, 0, 200, 100) >>]

\* linear_regression get_info
LinearRegressionInfo ==
    [type |-> "linear_regression",
     parameters |-> << DistributionParameter("slope", 100, -500, 500, 10),
                       DistributionParameter("noise_std", 100, 10, 500, 10),
                       DistributionParameter("pattern_id", 0, 0, 200, 100) >>]

\* ---------------------------------------------------------------- registry

\* DISTRIBUTION_REGISTRY: the keys of the dict, in insertion order
DISTRIBUTION_REGISTRY == << "uniform", "exponential", "linear_regression" >>

RegistryKeys == { DISTRIBUTION_REGISTRY[i] : i \in 1..Len(DISTRIBUTION_REGISTRY) }

\* DISTRIBUTION_REGISTRY[dist_type].get_info()
get_info(t) ==
    CASE t = "uniform" -> UniformInfo
      [] t = "exponential" -> ExponentialInfo
      [] t = "linear_regression" -> LinearRegressionInfo

\* the descriptors listed in the order of their sorted keys
get_available_distributions_sorted ==
    << get_info("exponential"), get_info("linear_regression"), get_info("uniform") >>

\* get_available_distributions: one get_info() per registry value, in dict order
get_available_distributions ==
    [i \in 1..Len(DISTRIBUTION_REGISTRY) |-> get_info(DISTRIBUTION_REGISTRY[i])]

\* the lookup without its membership test: the dict raises KeyError
get_distribution_info_unchecked(dist_type) ==
    IF dist_type \notin RegistryKeys
    THEN Raise("KeyError", "KeyError", {dist_type})
    ELSE Ok(get_info(dist_type))

get_distribution_info(dist_type) ==
    IF dist_type \notin RegistryKeys
    THEN Raise("ValueError", "UnknownModel", {dist_type})
    ELSE Ok(get_info(dist_type))

\* --------------------------------------------------------------- validator

ParamNames(info) == { info.parameters[i].name : i \in 1..Len(info.parameters) }

\* the range test with the bounds excluded
OutOfRangeExclusive(param_def, value) ==
    ~(/\ Le(Fin(param_def.min_value), value) /\ Le(value, Fin(param_def.max_value))
      /\ value # Fin(param_def.min_value) /\ value # Fin(param_def.max_value))

\* not (min_value <= value <= max_value)
OutOfRange(param_def, value) ==
    ~(Le(Fin(param_def.min_value), value) /\ Le(value, Fin(param_def.max_value)))

\* indices, in descriptor order, of the parameters whose value is out of range
RangeViolations(info, parameters) ==
    { i \in 1..Len(info.parameters) :
        OutOfRange(info.parameters[i], parameters[info.parameters[i].name]) }

SetMin(S) == CHOOSE m \in S : \A o \in S : m <= o
SetMax(S) == CHOOSE m \in S : \A o \in S : m >= o

\* the key-set check without its test for extra keys
CheckKeysMissingOnly(required_params, provided_params) ==
    LET missing == required_params \ provided_params IN
    IF missing # {} THEN Raise("ValueError", "missing", missing) ELSE Ok(NoValue)

\* the key-set check: missing keys first, extra keys second
CheckKeys(required_params, provided_params) ==
    LET missing == required_params \ provided_params
        extra == provided_params \ required_params
    IN IF missing # {} THEN Raise("ValueError", "missing", missing)
       ELSE IF extra # {} THEN Raise("ValueError", "extra", extra)
       ELSE Ok(NoValue)

\* the range loop raising at the last parameter out of range
CheckRangesLast(dist_info, parameters) ==
    LET bad == RangeViolations(dist_info, parameters) IN
    IF bad # {}
    THEN Raise("ValueError", "range", {dist_info.parameters[SetMax(bad)].name})
    ELSE Ok(NoValue)

\* the range loop: raises at the first parameter, in descriptor order, whose
\* value is out of range
CheckRanges(dist_info, parameters) ==
    LET bad == RangeViolations(dist_info, parameters) IN
    IF bad # {}
    THEN Raise("ValueError", "range", {dist_info.parameters[SetMin(bad)].name})
    ELSE Ok(NoValue)

validate_distribution_parameters(dist_type, parameters) ==
    LET got == get_distribution_info(dist_type) IN
    IF ~got.ok THEN got
    ELSE LET keys == CheckKeys(ParamNames(got.val), DOMAIN parameters) IN
         IF ~keys.ok THEN keys ELSE CheckRanges(got.val, parameters)

\* ------------------------------------------------------- numeric helpers

RECURSIVE SumSeq(_)
SumSeq(s) == IF s = << >> THEN 0 ELSE Head(s) + SumSeq(Tail(s))

Abs(v) == IF v < 0 THEN -v ELSE v

\* fixed-point product and quotient
Mul(x, y) == (x * y) \div Scale
Div(x, y) == (x * Scale) \div y

RECURSIVE SqrtSearch(_, _, _)
SqrtSearch(v, lo, hi) ==
    IF lo >= hi THEN lo
    ELSE LET mid == (lo + hi + 1) \div 2 IN
         IF mid * mid <= v THEN SqrtSearch(v, mid, hi) ELSE SqrtSearch(v, lo, mid - 1)

\* np.sqrt of a fixed-point value (0 for the negative values the callers never pass)
Sqrt(v) ==
    IF v <= 0 THEN 0
    ELSE SqrtSearch(v * Scale, 0, IF v * Scale < 46340 THEN v * Scale ELSE 46340)

\* linspace with endpoint=False semantics and one point short
linspace_short(start, stop, num) ==
    [i \in 1..(num - 1) |-> start + ((i - 1) * (stop - start)) \div num]

\* np.linspace(start, stop, num): num evenly spaced points, both ends included
linspace(start, stop, num) ==
    [i \in 1..num |->
        IF num = 1 THEN start
        ELSE IF i = num THEN stop
        ELSE start + ((i - 1) * (stop - start)) \div (num - 1)]

\* ndarray.tolist(): the array as a list of floats
tolist(arr) == [i \in 1..Len(arr) |-> Fin(arr[i])]

\* ---------------------------------------------------------- DistributionData

\* Field(min_length=10, max_length=10000) of the sequences
min_length == 10
max_length == 10000

SeqFields == {"pdf_values", "cdf_values", "y_true", "y_observed", "y_fitted"}

HasNanInf(v) == \E i \in 1..Len(v) : isnan(v[i]) \/ isinf(v[i])

LengthOk(v) == Len(v) >= min_length /\ Len(v) <= max_length

\* the field constraints and field validators of DistributionData
FieldErrors(d) ==
    { f \in SeqFields \cap d.present : ~LengthOk(d[f]) \/ HasNanInf(d[f]) }
    \cup (IF LengthOk(d.x_values) THEN {} ELSE {"x_values"})
    \cup (IF Ge(d.variance, Fin(0)) THEN {} ELSE {"variance"})
    \cup (IF Ge(d.std_dev, Fin(0)) THEN {} ELSE {"std_dev"})

\* DistributionData.validate_data_consistency (model_validator, mode="after")
validate_data_consistency(d) ==
    IF /\ {"pdf_values", "cdf_values"} \subseteq d.present
       /\ Cardinality({Len(d.x_values), Len(d.pdf_values), Len(d.cdf_values)}) # 1
    THEN FALSE
    ELSE IF /\ {"y_observed", "y_fitted"} \subseteq d.present
            /\ Cardinality({Len(d.x_values), Len(d.y_observed), Len(d.y_fitted)}) # 1
    THEN FALSE
    ELSE TRUE

\* DistributionData(...): the constructed model, or pydantic's ValidationError
\* (a ValueError) when a field or the model validator rejects the input
DistributionData(d) ==
    IF FieldErrors(d) # {} THEN Raise("ValueError", "DataInvalid", FieldErrors(d))
    ELSE IF ~validate_data_consistency(d)
    THEN Raise("ValueError", "DataInvalid", {"lengths"})
    ELSE Ok(d)

\* the keyword arguments of a DistributionData call, unset optionals being None
DataArgs(present, x, pdf, cdf, yt, yo, yf, mean, variance, std_dev, scalars) ==
    [present |-> present, x_values |-> x, pdf_values |-> pdf, cdf_values |-> cdf,
     y_true |-> yt, y_observed |-> yo, y_fitted |-> yf,
     mean |-> mean, variance |-> variance, std_dev |-> std_dev, scalars |-> scalars]

NoScalars ==
    [r_squared |-> Fin(0), slope_estimated |-> Fin(0),
     intercept_estimated |-> Fin(0), rmse |-> Fin(0)]

\* ------------------------------------------------------ uniform distribution

\* the arrays with the density's interval open at both ends
UniformArraysOpen(a, b, num_points) ==
    LET margin == (b - a) \div 5
        x == linspace(a - margin, b + margin, num_points)
        pdf == [i \in 1..Len(x) |->
                  IF x[i] > a /\ x[i] < b THEN Div(Scale, b - a) ELSE 0]
        cdf == [i \in 1..Len(x) |->
                  LET r == Div(x[i] - a, b - a) IN
                  IF r < 0 THEN 0 ELSE IF r > Scale THEN Scale ELSE r]
        variance == Mul(b - a, b - a) \div 12
    IN [present |-> {"pdf_values", "cdf_values"}, x_values |-> tolist(x),
        pdf_values |-> tolist(pdf), cdf_values |-> tolist(cdf), y_true |-> << >>,
        y_observed |-> << >>, y_fitted |-> << >>, mean |-> Fin((a + b) \div 2),
        variance |-> Fin(variance), std_dev |-> Fin(Sqrt(variance)),
        scalars |-> NoScalars]

\* the arrays with the distribution function left unclipped
UniformArraysUnclipped(a, b, num_points) ==
    LET margin == (b - a) \div 5
        x == linspace(a - margin, b + margin, num_points)
        pdf == [i \in 1..Len(x) |->
                  IF x[i] >= a /\ x[i] <= b THEN Div(Scale, b - a) ELSE 0]
        cdf == [i \in 1..Len(x) |-> Div(x[i] - a, b - a)]
        variance == Mul(b - a, b - a) \div 12
    IN [present |-> {"pdf_values", "cdf_values"}, x_values |-> tolist(x),
        pdf_values |-> tolist(pdf), cdf_values |-> tolist(cdf), y_true |-> << >>,
        y_observed |-> << >>, y_fitted |-> << >>, mean |-> Fin((a + b) \div 2),
        variance |-> Fin(variance), std_dev |-> Fin(Sqrt(variance)),
        scalars |-> NoScalars]

\* the arrays computed from finite a < b
UniformArrays(a, b, num_points) ==
    LET margin == (b - a) \div 5
        x == linspace(a - margin, b + margin, num_points)
        pdf == [i \in 1..Len(x) |->
                  IF x[i] >= a /\ x[i] <= b THEN Div(Scale, b - a) ELSE 0]
        cdf == [i \in 1..Len(x) |->
                  LET r == Div(x[i] - a, b - a) IN
                  IF r < 0 THEN 0 ELSE IF r > Scale THEN Scale ELSE r]
        mean == (a + b) \div 2
        variance == Mul(b - a, b - a) \div 12
    IN DataArgs({"pdf_values", "cdf_values"}, tolist(x), tolist(pdf), tolist(cdf),
                << >>, << >>, << >>, Fin(mean), Fin(variance), Fin(Sqrt(variance)),
                NoScalars)

\* calculate with its comparison reversed
UniformCalculateReversed(a, b, num_points) ==
    IF Le(a, b) THEN Raise("ValueError", "InvalidParameters", {"a", "b"})
    ELSE IF ~(IsFinite(a) /\ IsFinite(b))
    THEN Raise("ValueError", "DataInvalid", {"cdf_values"})
    ELSE DistributionData(UniformArrays(a.v, b.v, num_points))

\* UniformDistribution.calculate
UniformCalculate(a, b, num_points) ==
    IF Ge(a, b) THEN Raise("ValueError", "InvalidParameters", {"a", "b"})
    ELSE IF ~(IsFinite(a) /\ IsFinite(b))
    THEN \* the arrays hold NaN, which validate_no_nan_inf rejects
         Raise("ValueError", "DataInvalid", {"cdf_values"})
    ELSE DistributionData(UniformArrays(a.v, b.v, num_points))

\* -------------------------------------------------- exponential distribution

\* multiple of the standard deviation that bounds the right tail
TailK == 7

\* e^(-t) for fixed-point t >= 0
ExpNeg(t) == Div(Scale, Scale + t + Mul(t, t) \div 2)

ExponentialArrays(rate, num_points) ==
    LET mean == Div(Scale, rate)
        variance == Mul(mean, mean)
        x == linspace(0, mean + TailK * mean, num_points)
        pdf == [i \in 1..Len(x) |-> Mul(rate, ExpNeg(Mul(rate, x[i])))]
        cdf == [i \in 1..Len(x) |-> Scale - ExpNeg(Mul(rate, x[i]))]
    IN DataArgs({"pdf_values", "cdf_values"}, tolist(x), tolist(pdf), tolist(cdf),
                << >>, << >>, << >>, Fin(mean), Fin(variance), Fin(mean), NoScalars)

\* ExponentialDistribution.calculate
ExponentialCalculate(lambda_, num_points) ==
    IF Le(lambda_, Fin(0)) THEN Raise("ValueError", "InvalidParameters", {"lambda_"})
    ELSE IF ~IsFinite(lambda_) THEN Raise("ValueError", "DataInvalid", {"pdf_values"})
    ELSE DistributionData(ExponentialArrays(lambda_.v, num_points))

\* ------------------------------------------------------------ np.random

\* np.random.seed(42)
Seed == 42

\* the global generator is a congruential generator over 64 states
RngNext(s) == (s * 5 + 3) % 64

RECURSIVE RngAfter(_, _)
\* the generator's state after k draws from state s
RngAfter(s, k) == IF k = 0 THEN s ELSE RngAfter(RngNext(s), k - 1)

\* one np.random.uniform(-5, 5) value from a generator state
UniformDraw(s) == -5 * Scale + (s * 10 * Scale) \div 64

\* one standard normal value from a generator state
NormalDraw(s) == ((s % 7) - 3) * (Scale \div 2)

RECURSIVE Insert(_, _)
Insert(v, sorted) ==
    IF sorted = << >> THEN << v >>
    ELSE IF v <= Head(sorted) THEN << v >> \o sorted
    ELSE << Head(sorted) >> \o Insert(v, Tail(sorted))

RECURSIVE SortAsc(_)
\* ndarray.sort(): ascending
SortAsc(s) == IF s = << >> THEN << >> ELSE Insert(Head(s), SortAsc(Tail(s)))

RECURSIVE Choice(_, _, _)
\* np.random.choice(n, k, replace=False): k pairwise distinct indices, drawn
\* one after the other from the indices that remain
Choice(s, remaining, k) ==
    IF k = 0 \/ remaining = << >> THEN << >>
    ELSE LET s1 == RngNext(s)
             at == (s1 % Len(remaining)) + 1
             rest == [j \in 1..(Len(remaining) - 1) |->
                        IF j < at THEN remaining[j] ELSE remaining[j + 1]]
         IN << remaining[at] >> \o Choice(s1, rest, k - 1)

\* one np.random.choice([-1, 1]) value from a generator state
SignDraw(s) == IF s % 2 = 0 THEN -1 ELSE 1

\* ------------------------------------------------------- regression metrics

Mean(v) == SumSeq(v) \div Len(v)

SquaredErrors(y_true, y_pred) ==
    [i \in 1..Len(y_true) |-> Mul(y_true[i] - y_pred[i], y_true[i] - y_pred[i])]

calculate_r_squared(y_true, y_pred) ==
    LET y_mean == Mean(y_true)
        ss_tot == SumSeq([i \in 1..Len(y_true) |->
                            Mul(y_true[i] - y_mean, y_true[i] - y_mean)])
        ss_res == SumSeq(SquaredErrors(y_true, y_pred))
    IN IF ss_tot = 0 THEN 0 ELSE Scale - Div(ss_res, ss_tot)

calculate_mse(y_true, y_pred) == Mean(SquaredErrors(y_true, y_pred))

calculate_rmse(y_true, y_pred) == Sqrt(Mean(SquaredErrors(y_true, y_pred)))

calculate_mae(y_true, y_pred) ==
    Mean([i \in 1..Len(y_true) |-> Abs(y_true[i] - y_pred[i])])

evaluate_regression(y_true, y_pred) ==
    [r_squared |-> calculate_r_squared(y_true, y_pred),
     rmse |-> calculate_rmse(y_true, y_pred),
     mse |-> calculate_mse(y_true, y_pred),
     mae |-> calculate_mae(y_true, y_pred)]

\* -------------------------------------------------------- LinearRegression

\* LinearRegression.__init__
NewModel == [slope |-> 0, intercept |-> 0, is_fitted |-> FALSE, method |-> ""]

\* the test for the degenerate case that lets a single sample through
TooFewSamplesEmptyOnly(x) == Len(x) < 1

\* fit: len(x) < 2
TooFewSamples(x) == Len(x) < 2

\* the analytical estimate with the mean of y taken for the intercept
fit_analytical_mean_intercept(x, y) ==
    LET x_mean == SumSeq(x) \div Len(x)
        y_mean == SumSeq(y) \div Len(y)
        numerator == SumSeq([i \in 1..Len(x) |-> ((x[i] - x_mean) * (y[i] - y_mean)) \div Scale])
        denominator == SumSeq([i \in 1..Len(x) |-> ((x[i] - x_mean) * (x[i] - x_mean)) \div Scale])
    IN [slope |-> IF denominator = 0 THEN 0 ELSE (numerator * Scale) \div denominator,
        intercept |-> y_mean]

\* LinearRegression._fit_analytical: the coefficients [slope, intercept]
fit_analytical(x, y) ==
    LET x_mean == Mean(x)
        y_mean == Mean(y)
        numerator == SumSeq([i \in 1..Len(x) |-> Mul(x[i] - x_mean, y[i] - y_mean)])
        denominator == SumSeq([i \in 1..Len(x) |-> Mul(x[i] - x_mean, x[i] - x_mean)])
        slope == IF denominator = 0 THEN 0 ELSE Div(numerator, denominator)
    IN [slope |-> slope, intercept |-> y_mean - Mul(slope, x_mean)]

\* LinearRegression.fit(x, y, method="analytical")
FitAnalytical(self, x, y) ==
    IF Len(x) < 2
    THEN [slope |-> 0, intercept |-> 0, is_fitted |-> TRUE, method |-> "analytical"]
    ELSE LET c == fit_analytical(x, y) IN
         [slope |-> c.slope, intercept |-> c.intercept, is_fitted |-> TRUE,
          method |-> "analytical"]

\* LinearRegression.predict of a fitted model
predict(self, x) == [i \in 1..Len(x) |-> Mul(self.slope, x[i]) + self.intercept]

\* LinearRegression._fit_matrix: the coefficients theta = [slope, intercept].
\* With X = [x, 1], XtX = [[sxx, sx], [sx, n]] and Xty = [sxy, sy].  For
\* sample values that binary floats represent exactly, np.linalg.inv raises
\* LinAlgError exactly when det(XtX) = 0, that is when all x are equal to one
\* value c; pinv(XtX) @ Xty is then the least-squares solution of minimum
\* norm, mean_y / (c^2 + 1) * [c, 1].
fit_matrix(x, y) ==
    LET n == Len(x)
        sx == SumSeq(x)
        sy == SumSeq(y)
        sxx == SumSeq([i \in 1..n |-> x[i] * x[i]])
        sxy == SumSeq([i \in 1..n |-> x[i] * y[i]])
        det == n * sxx - sx * sx
        c == x[1]
        y_mean == sy \div n
    IN IF det # 0
       THEN [slope |-> ((n * sxy - sx * sy) * Scale) \div det,
             intercept |-> (sxx * sy - sx * sxy) \div det]
       ELSE [slope |-> (y_mean * c * Scale) \div (c * c + Scale * Scale),
             intercept |-> (y_mean * Scale * Scale) \div (c * c + Scale * Scale)]

\* the descent's coefficients are kept in units of 1/Fine of a hundredth
Fine == 1000

\* the nearest hundredth of a value in those units: float(slope.item())
Coarse(v) == (v + Fine \div 2) \div Fine

\* one pass of the loop in which only the slope is updated
GdStepSlopeOnly(x, y, lr, th) ==
    LET n == Len(x)
        err == [i \in 1..n |-> (th.slope * x[i]) \div Scale + th.intercept - y[i] * Fine]
        slope_grad == (2 * SumSeq([i \in 1..n |-> err[i] * x[i]])) \div (n * Scale)
    IN [slope |-> th.slope - (lr * slope_grad) \div Scale, intercept |-> th.intercept]

\* one pass of the loop of _fit_gradient_descent: the coefficients after
\* slope -= lr * slope.grad and intercept -= lr * intercept.grad, the
\* gradients being those of mean((y - y_pred)^2)
GdStep(x, y, lr, th) ==
    LET n == Len(x)
        err == [i \in 1..n |-> (th.slope * x[i]) \div Scale + th.intercept - y[i] * Fine]
        slope_grad == (2 * SumSeq([i \in 1..n |-> err[i] * x[i]])) \div (n * Scale)
        intercept_grad == (2 * SumSeq(err)) \div n
    IN [slope |-> th.slope - (lr * slope_grad) \div Scale,
        intercept |-> th.intercept - (lr * intercept_grad) \div Scale]

\* the names fit dispatches on
Methods == {"analytical", "matrix", "gradient_descent"}

\* test_three_methods_agree: lr=0.01, epochs=5000, tolerance = 0.05
test_lr == 1
test_epochs == 5000
tolerance == 5

\* --------------------------------------------------- regression computation

\* int(pattern_id): truncation toward zero
IntOf(v) == IF v >= 0 THEN v \div Scale ELSE -((-v) \div Scale)

\* the intercept taken from the argument
PassedIntercept(intercept_arg) == intercept_arg.v

\* intercept = 0.0: the argument is overwritten
FixedIntercept(intercept_arg) == 0

\* the number of outliers with the tenth of the sample count rounded up
OutlierCountRoundedUp(n_samples) == (n_samples + 9) \div 10

\* int(n_samples * 0.1)
OutlierCount(n_samples) == n_samples \div 10

\* np.random.seed(42) without effect: the generator goes on from its state
seed_skipped(rng0) == rng0

\* np.random.seed(42): the generator's state afterwards, whatever it was
seed(rng0) == Seed

\* np.random.uniform(-5, 5, n) drawn from generator state s, which the call
\* leaves at RngAfter(s, n)
DrawUniform(s, n) == [i \in 1..n |-> UniformDraw(RngAfter(s, i))]

\* np.random.normal(0, scale, n) drawn from generator state s
DrawNormal(s, scale, n) == [i \in 1..n |-> Mul(scale, NormalDraw(RngAfter(s, i)))]

\* np.random.choice([-1, 1], k) drawn from generator state s
DrawSigns(s, k) == [j \in 1..k |-> SignDraw(RngAfter(s, j))]

\* y_true of the pattern selected
YTrue(pattern_id, slope, intercept, x) ==
    [i \in 1..Len(x) |->
        IF pattern_id = 1
        THEN Mul(slope, x[i]) + intercept + Mul(x[i], x[i]) \div 2
        ELSE Mul(slope, x[i]) + intercept]

\* y_observed[outlier_indices] += signs * (noise_std * 5 + 5)
AddOutliers(y_observed, outlier_indices, signs, noise_std) ==
    [i \in 1..Len(y_observed) |->
        IF \E j \in 1..Len(outlier_indices) : outlier_indices[j] = i
        THEN LET j == CHOOSE j \in 1..Len(outlier_indices) : outlier_indices[j] = i
             IN y_observed[i] + signs[j] * (noise_std * 5 + 5 * Scale)
        ELSE y_observed[i]]

\* the generated data of calculate: x, y_true, y_observed and the generator's
\* state afterwards, for finite arguments and the global generator in rng0
RegressionData(rng0, slope, noise_std, pattern_arg, intercept_arg, n_samples) ==
    LET pattern_id == IntOf(pattern_arg)
        intercept == FixedIntercept(intercept_arg)
        s0 == seed(rng0)
        x == SortAsc(DrawUniform(s0, n_samples))
        s1 == RngAfter(s0, n_samples)
        noise == DrawNormal(s1, noise_std, n_samples)
        s2 == RngAfter(s1, n_samples)
        y_true == YTrue(pattern_id, slope, intercept, x)
        noisy == [i \in 1..n_samples |-> y_true[i] + noise[i]]
        n_outliers == OutlierCount(n_samples)
        shifted == pattern_id = 2 /\ n_outliers > 0
        outlier_indices == Choice(s2, [i \in 1..n_samples |-> i], n_outliers)
        s3 == RngAfter(s2, n_outliers)
        signs == DrawSigns(s3, n_outliers)
        y_observed == IF ~shifted THEN noisy
                      ELSE AddOutliers(noisy, outlier_indices, signs, noise_std)
    IN [x |-> x, y_true |-> y_true, y_observed |-> y_observed, noise |-> noise,
        outlier_indices |-> IF shifted THEN outlier_indices ELSE << >>,
        rng |-> IF shifted THEN RngAfter(s3, n_outliers) ELSE s2]

\* the DistributionData arguments calculate builds from the generated data
RegressionArrays(g) ==
    LET model == FitAnalytical(NewModel, g.x, g.y_observed)
        y_fitted == predict(model, g.x)
        metrics == evaluate_regression(g.y_observed, y_fitted)
        mean == Mean(g.y_observed)
        variance == Mean([i \in 1..Len(g.x) |->
                            Mul(g.y_observed[i] - mean, g.y_observed[i] - mean)])
    IN DataArgs({"y_true", "y_observed", "y_fitted", "r_squared", "slope_estimated",
                 "intercept_estimated", "rmse"},
                tolist(g.x), << >>, << >>, tolist(g.y_true), tolist(g.y_observed),
                tolist(y_fitted), Fin(mean), Fin(variance), Fin(Sqrt(variance)),
                [r_squared |-> Fin(metrics.r_squared),
                 slope_estimated |-> Fin(model.slope),
                 intercept_estimated |-> Fin(model.intercept),
                 rmse |-> Fin(metrics.rmse)])

\* calculate of the regression unit: [ret, rng], the result and the state the
\* global generator is left in
RegressionCalculate(rng0, slope, noise_std, pattern_id, intercept, num_points) ==
    IF isnan(pattern_id)
    THEN [ret |-> Raise("ValueError", "InvalidParameters", {"pattern_id"}), rng |-> rng0]
    ELSE IF isinf(pattern_id)
    THEN [ret |-> Raise("OverflowError", "InvalidParameters", {"pattern_id"}),
          rng |-> rng0]
    ELSE IF Le(noise_std, Fin(-1))
    THEN \* np.random.normal rejects a negative scale, after x was drawn
         [ret |-> Raise("ValueError", "InvalidParameters", {"noise_std"}),
          rng |-> RngAfter(seed(rng0), num_points)]
    ELSE IF ~(IsFinite(slope) /\ IsFinite(noise_std))
    THEN [ret |-> Raise("ValueError", "DataInvalid", {"y_observed"}),
          rng |-> RngAfter(seed(rng0), 2 * num_points)]
    ELSE LET g == RegressionData(rng0, slope.v, noise_std.v, pattern_id.v, intercept,
                                 num_points)
         IN [ret |-> DistributionData(RegressionArrays(g)), rng |-> g.rng]

\* ------------------------------------------------------ registry dispatch

\* parameters.get(key, default)
Get(parameters, key, default) ==
    IF key \in DOMAIN parameters THEN parameters[key] ELSE Fin(default)

\* calculate_distribution: [ret, rng], the result and the state the global
\* generator is left in
calculate_distribution(rng0, dist_type, parameters, num_points) ==
    IF dist_type \notin RegistryKeys
    THEN [ret |-> Raise("ValueError", "UnknownModel", {dist_type}), rng |-> rng0]
    ELSE IF dist_type = "uniform"
    THEN [ret |-> UniformCalculate(Get(parameters, "a", 0),
                                   Get(parameters, "b", Scale), num_points),
          rng |-> rng0]
    ELSE IF dist_type = "exponential"
    THEN [ret |-> ExponentialCalculate(Get(parameters, "lambda_", Scale), num_points),
          rng |-> rng0]
    ELSE IF dist_type = "linear_regression"
    THEN RegressionCalculate(rng0, Get(parameters, "slope", Scale),
                             Get(parameters, "noise_std", Scale),
                             Get(parameters, "pattern_id", 0),
                             Get(parameters, "intercept", 0), num_points)
    ELSE [ret |-> Raise("NotImplementedError", "NotImplemented", {dist_type}),
          rng |-> rng0]

\* ------------------------------------------------------------ request model

\* num_points: Field(ge=10, le=10000)
num_points_ge == 10
num_points_le == 10000

\* parameters: Field(min_length=1, max_length=20)
parameters_min_length == 1
parameters_max_length == 20

\* validate_parameters testing for NaN only
validate_parameters_nan_only(v) ==
    LET bad == { key \in DOMAIN v : isnan(v[key]) } IN
    IF bad # {} THEN Raise("ValueError", "nonfinite", bad) ELSE Ok(NoValue)

\* CalculateRequest.validate_parameters
validate_parameters(v) ==
    LET bad == { key \in DOMAIN v : isnan(v[key]) \/ isinf(v[key]) } IN
    IF bad # {} THEN Raise("ValueError", "nonfinite", bad) ELSE Ok(NoValue)

\* CalculateRequest(...): the fields that fail validation
CalculateRequest(distribution_type, parameters, num_points) ==
    LET n == Cardinality(DOMAIN parameters)
        errors ==
            (IF distribution_type \in DistributionType THEN {} ELSE {"distribution_type"})
            \cup (IF /\ n >= parameters_min_length
                     /\ n <= parameters_max_length
                     /\ validate_parameters(parameters).ok
                  THEN {} ELSE {"parameters"})
            \cup (IF num_points >= num_points_ge /\ num_points <= num_points_le
                  THEN {} ELSE {"num_points"})
    IN IF errors # {} THEN Raise("RequestValidationError", "request", errors)
       ELSE Ok(NoValue)

\* the handler with a single except clause
CalculateStatusGeneric(r) == 500

\* the status the calculate handler answers an exception with
CalculateStatus(r) == IF r.exc = "ValueError" THEN 400 ELSE 500

\* the status the get_distribution handler answers get_distribution_info with
DescribeStatus(r) == IF r.ok THEN 200 ELSE IF r.exc = "ValueError" THEN 404 ELSE 500

\* ------------------------------------------------------------------ inputs

\* type strings a caller sends: the enumeration's and one outside it
TypeInputs == DistributionType \cup {"normal"}

\* keys a caller sends: the descriptor's and one no descriptor lists
KeyInputs(t) ==
    (IF t \in RegistryKeys THEN ParamNames(get_info(t)) ELSE {}) \cup {"intercept"}

FinSet(S) == { Fin(v) : v \in S }

\* values a request carries under a key: at, inside and just outside the bounds
RequestValues(key) ==
    CASE key \in {"a", "b"} ->
           FinSet({-1001, -1000, 0, 100, 1000, 1001}) \cup {NaN, PosInf, NegInf}
      [] key = "lambda_" -> FinSet({0, 9, 10, 100, 1000, 1001}) \cup {NaN, NegInf}
      [] key = "slope" -> FinSet({-501, -500, 100, 500, 501}) \cup {NaN}
      [] key = "noise_std" -> FinSet({9, 10, 100, 500, 501}) \cup {PosInf}
      [] key = "pattern_id" -> FinSet({-1, 0, 50, 100, 190, 200, 201}) \cup {NaN}
      [] OTHER -> FinSet({0, 300})

\* values a direct call of the computation passes under a key
DirectValues(key) ==
    CASE key \in {"a", "b"} -> FinSet({-1000, 0, 100, 1001}) \cup {NaN, PosInf}
      [] key = "lambda_" -> FinSet({-100, 0, 9, 100}) \cup {NaN}
      [] key = "slope" -> FinSet({-500, 100, 501})
      [] key = "noise_std" -> FinSet({-100, 10, 100})
      [] key = "pattern_id" -> FinSet({-100, 0, 50, 100, 190, 200, 300}) \cup {NaN}
      [] OTHER -> FinSet({300})

ValueInputs(key, direct) == IF direct THEN DirectValues(key) ELSE RequestValues(key)

RECURSIVE MapsOver(_, _)
\* the parameter maps with key set D
MapsOver(D, direct) ==
    IF D = {} THEN { << >> }
    ELSE LET k == CHOOSE k \in D : TRUE IN
         { [j \in D |-> IF j = k THEN v ELSE m[j]] :
             m \in MapsOver(D \ {k}, direct), v \in ValueInputs(k, direct) }

ParamInputs(t) == UNION { MapsOver(D, FALSE) : D \in SUBSET KeyInputs(t) }

DirectParamInputs(t) == UNION { MapsOver(D, TRUE) : D \in SUBSET KeyInputs(t) }

\* sample counts a request carries: around the lower limit, and above the upper
NumPointInputs == {num_points_ge - 1, num_points_ge, MaxN, num_points_le + 1}

\* the smallest sample count from min_length on at which samples of the
\* uniform fall on a and on b: the margins are 1/7 of the sampled interval
EdgeN == 2 * 7 + 1

\* the smallest sample count at which int(n_samples * 0.1) is 2
TwoOutliersN == 2 * min_length

\* sample counts of direct calls of the computation
DirectNumPoints == {min_length - 1, MaxN, EdgeN, TwoOutliersN}

\* states the global generator may be in when the process starts
RngInputs == {0, 21}

Zeros(n) == [i \in 1..n |-> Fin(0)]

\* DistributionData arguments with the lengths of the sequences given chosen freely
DataInputsWith(present) ==
    { DataArgs(present, Zeros(lens.x_values),
               Zeros(lens.pdf_values), Zeros(lens.cdf_values), Zeros(lens.y_true),
               Zeros(lens.y_observed), Zeros(lens.y_fitted),
               Fin(0), Fin(0), Fin(0), NoScalars) :
        lens \in { l \in [SeqFields \cup {"x_values"} ->
                             {0, min_length, min_length + 1}] :
                     /\ l.x_values # 0
                     /\ \A f \in SeqFields : l[f] = 0 <=> f \notin present } }

LengthDataInputs == UNION { DataInputsWith(present) : present \in SUBSET SeqFields }

ScalarFields == {"r_squared", "slope_estimated", "intercept_estimated", "rmse"}

\* a sequence of the minimal length whose first element is the given value
Leading(value) == [i \in 1..min_length |-> IF i = 1 THEN value ELSE Fin(0)]

\* DistributionData arguments of the minimal length in which one field, a
\* sequence or a scalar, holds the given value
DataInputWith(field, value) ==
    LET seq(f) == IF f = field THEN Leading(value)
                  ELSE IF f = "x_values" THEN Zeros(min_length) ELSE << >>
        num(f) == IF f = field THEN value ELSE Fin(0)
    IN DataArgs({field} \cap (SeqFields \cup ScalarFields),
                seq("x_values"), seq("pdf_values"), seq("cdf_values"),
                seq("y_true"), seq("y_observed"), seq("y_fitted"),
                num("mean"), num("variance"), num("std_dev"),
                [f \in ScalarFields |-> num(f)])

\* values a caller may place in a float field; a NaN variance or std_dev is
\* left out of the inputs
NonFiniteDataInputs ==
    { DataInputWith(field, value) :
        field \in SeqFields \cup ScalarFields \cup {"x_values", "mean"},
        value \in {NaN, PosInf, NegInf} }
    \cup { DataInputWith(field, value) :
             field \in {"variance", "std_dev"}, value \in {PosInf, NegInf} }

DataInputs == LengthDataInputs \cup NonFiniteDataInputs

\* values a descriptor's author passes for default_value, min_value, max_value
BoundInputs == FinSet({-100, 0, 100, 200})

\* and for step
StepInputs == FinSet({0, 10})

\* observed and predicted sequences a caller of the metrics passes: every pair
\* of equal length up to 2 over the values 0, 1 and 2
MetricInputs ==
    UNION { { [y_true |-> t, y_pred |-> q] :
                t \in [1..n -> {0, Scale, 2 * Scale}],
                q \in [1..n -> {0, Scale, 2 * Scale}] } : n \in 0..2 }

\* ------------------------------------------------------------------- state

VARIABLES
    pc,         \* "idle", "validating", "computing" or "done"
    op,         \* the operation in progress or last finished
    req,        \* its arguments
    ret,        \* the result of the last library call
    resp,       \* the HTTP response of an endpoint: status and body
    validated,  \* validate_distribution_parameters returned for this request
    computed,   \* calculate_distribution was invoked for this request
    rng,        \* state of the global np.random generator
    instance,   \* the LinearRegression object a caller holds
    descent,    \* locals of _fit_gradient_descent: slope, intercept, epochs done
    workers     \* locals of the regression calculate running on each thread

vars ==
    << pc, op, req, ret, resp, validated, computed, rng, instance, descent, workers >>

\* the threads of one process that call the computation
Workers == {1, 2}

\* a thread that is not in a call
IdleWorker ==
    [at |-> "idle", call |-> NoValue, x |-> << >>, noise |-> << >>,
     outlier_indices |-> << >>, signs |-> << >>, result |-> Ok(NoValue),
     overlapped |-> FALSE]

\* _fit_gradient_descent is not running
NoDescent == [slope |-> 0, intercept |-> 0, epoch |-> 0]

NoReq == [dist_type |-> "", parameters |-> << >>, num_points |-> 0, data |-> NoValue]
NoResp == [status |-> 0, body |-> NoValue]
Request(t, p, n) == [dist_type |-> t, parameters |-> p, num_points |-> n, data |-> NoValue]
Response(status, body) == [status |-> status, body |-> body]

Init ==
    /\ pc = "idle"
    /\ op = "none"
    /\ req = NoReq
    /\ ret = Ok(NoValue)
    /\ resp = NoResp
    /\ validated = FALSE
    /\ computed = FALSE
    /\ rng \in RngInputs
    /\ instance = NewModel
    /\ descent = NoDescent
    /\ workers = [w \in Workers |-> IdleWorker]

\* GET /distributions
list_distributions ==
    /\ pc = "idle"
    /\ pc' = "done"
    /\ op' = "list"
    /\ req' = NoReq
    /\ ret' = Ok(NoValue)
    /\ resp' = Response(200, [list |-> get_available_distributions])
    /\ UNCHANGED << validated, computed, rng >>
    /\ UNCHANGED << instance, descent, workers >>

\* the path parameter declared as a plain string
IsAnyString(dist_type) == TRUE

\* dist_type: DistributionType, the conversion of the path parameter
IsDistributionType(dist_type) == dist_type \in DistributionType

\* GET /distributions/{dist_type}
get_distribution(dist_type) ==
    /\ pc = "idle"
    /\ pc' = "done"
    /\ op' = "describe"
    /\ req' = Request(dist_type, << >>, 0)
    /\ IF ~IsDistributionType(dist_type)
       THEN /\ ret' = Raise("RequestValidationError", "request", {"dist_type"})
            /\ resp' = Response(422, NoValue)
       ELSE LET r == get_distribution_info(dist_type) IN
            /\ ret' = r
            /\ resp' = Response(DescribeStatus(r), r.val)
    /\ UNCHANGED << validated, computed, rng >>
    /\ UNCHANGED << instance, descent, workers >>

\* POST /calculate: the request body is parsed into a CalculateRequest
calculate_receive(dist_type, parameters, num_points) ==
    /\ pc = "idle"
    /\ op' = "calculate"
    /\ req' = Request(dist_type, parameters, num_points)
    /\ LET r == CalculateRequest(dist_type, parameters, num_points) IN
       /\ ret' = r
       /\ IF r.ok
          THEN pc' = "validating" /\ resp' = NoResp
          ELSE pc' = "done" /\ resp' = Response(422, NoValue)
    /\ UNCHANGED << validated, computed, rng >>
    /\ UNCHANGED << instance, descent, workers >>

\* the handler going on to the computation whatever the validator answered
calculate_validate_unchecked ==
    /\ pc = "validating"
    /\ ret' = validate_distribution_parameters(req.dist_type, req.parameters)
    /\ pc' = "computing"
    /\ validated' = ret'.ok
    /\ resp' = NoResp
    /\ UNCHANGED << op, req, computed, rng >>
    /\ UNCHANGED << instance, descent, workers >>

\* calculate, first statement of the try block
calculate_validate ==
    /\ pc = "validating"
    /\ LET r == validate_distribution_parameters(req.dist_type, req.parameters) IN
       /\ ret' = r
       /\ IF r.ok
          THEN pc' = "computing" /\ validated' = TRUE /\ resp' = NoResp
          ELSE /\ pc' = "done"
               /\ validated' = FALSE
               /\ resp' = Response(CalculateStatus(r), NoValue)
    /\ UNCHANGED << op, req, computed, rng >>
    /\ UNCHANGED << instance, descent, workers >>

\* calculate, second statement of the try block and the return
calculate_compute ==
    /\ pc = "computing"
    /\ LET c == calculate_distribution(rng, req.dist_type, req.parameters,
                                       req.num_points)
       IN /\ ret' = c.ret
          /\ rng' = c.rng
          /\ resp' = IF c.ret.ok THEN Response(200, c.ret.val)
                     ELSE Response(CalculateStatus(c.ret), NoValue)
    /\ pc' = "done"
    /\ computed' = TRUE
    /\ UNCHANGED << op, req, validated >>
    /\ UNCHANGED << instance, descent, workers >>

\* a direct call of get_distribution_info
call_info(dist_type) ==
    /\ pc = "idle"
    /\ pc' = "done"
    /\ op' = "info"
    /\ req' = Request(dist_type, << >>, 0)
    /\ ret' = get_distribution_info(dist_type)
    /\ UNCHANGED << resp, validated, computed, rng >>
    /\ UNCHANGED << instance, descent, workers >>

\* a direct call of validate_distribution_parameters
call_validate(dist_type, parameters) ==
    /\ pc = "idle"
    /\ pc' = "done"
    /\ op' = "validate"
    /\ req' = Request(dist_type, parameters, 0)
    /\ ret' = validate_distribution_parameters(dist_type, parameters)
    /\ UNCHANGED << resp, validated, computed, rng >>
    /\ UNCHANGED << instance, descent, workers >>

\* a direct call of calculate_distribution
call_compute(dist_type, parameters, num_points) ==
    /\ pc = "idle"
    /\ pc' = "done"
    /\ op' = "compute"
    /\ req' = Request(dist_type, parameters, num_points)
    /\ LET c == calculate_distribution(rng, dist_type, parameters, num_points) IN
       ret' = c.ret /\ rng' = c.rng
    /\ UNCHANGED << resp, validated, computed >>
    /\ UNCHANGED << instance, descent, workers >>

\* a direct construction of a DistributionData
construct(d) ==
    /\ pc = "idle"
    /\ pc' = "done"
    /\ op' = "construct"
    /\ req' = [NoReq EXCEPT !.data = d]
    /\ ret' = DistributionData(d)
    /\ UNCHANGED << resp, validated, computed, rng >>
    /\ UNCHANGED << instance, descent, workers >>

\* a direct construction of a DistributionParameter
construct_parameter(default_value, min_value, max_value, step) ==
    /\ pc = "idle"
    /\ pc' = "done"
    /\ op' = "parameter"
    /\ req' = [NoReq EXCEPT !.data = [default_value |-> default_value,
                                      min_value |-> min_value,
                                      max_value |-> max_value, step |-> step]]
    /\ ret' = DistributionParameterInit(default_value, min_value, max_value, step)
    /\ UNCHANGED << resp, validated, computed, rng >>
    /\ UNCHANGED << instance, descent, workers >>

\* a direct call of calculate_r_squared
call_r_squared(y_true, y_pred) ==
    /\ pc = "idle"
    /\ pc' = "done"
    /\ op' = "r_squared"
    /\ req' = [NoReq EXCEPT !.data = [y_true |-> y_true, y_pred |-> y_pred]]
    /\ ret' = Ok(calculate_r_squared(y_true, y_pred))
    /\ UNCHANGED << resp, validated, computed, rng >>
    /\ UNCHANGED << instance, descent, workers >>

\* the call has returned; the next one starts from a clean slate
finish ==
    /\ pc = "done"
    /\ pc' = "idle"
    /\ op' = "none"
    /\ req' = NoReq
    /\ ret' = Ok(NoValue)
    /\ resp' = NoResp
    /\ validated' = FALSE
    /\ computed' = FALSE
    /\ UNCHANGED rng
    /\ UNCHANGED << instance, descent, workers >>

\* a call starts only when none is in progress
Next ==
    \/ list_distributions
    \/ pc = "idle" /\ \E t \in TypeInputs : get_distribution(t)
    \/ pc = "idle" /\ \E t \in TypeInputs : \E p \in ParamInputs(t) :
         \E n \in NumPointInputs : calculate_receive(t, p, n)
    \/ calculate_validate
    \/ calculate_compute
    \/ pc = "idle" /\ \E t \in TypeInputs : call_info(t)
    \/ pc = "idle" /\ \E t \in TypeInputs : \E p \in ParamInputs(t) :
         call_validate(t, p)
    \/ pc = "idle" /\ \E t \in TypeInputs : \E p \in DirectParamInputs(t) :
         \E n \in DirectNumPoints : call_compute(t, p, n)
    \/ pc = "idle" /\ \E d \in DataInputs : construct(d)
    \/ pc = "idle" /\ \E d \in BoundInputs : \E lo \in BoundInputs :
         \E hi \in BoundInputs : \E st \in StepInputs :
            construct_parameter(d, lo, hi, st)
    \/ pc = "idle" /\ \E m \in MetricInputs : call_r_squared(m.y_true, m.y_pred)
    \/ finish

Spec == Init /\ [][Next]_vars

\* ------------------------------------------- a LinearRegression object in use

\* largest y value, in whole units, of the samples a caller fits
MaxY == 2

XValues == {0, Scale}
YValues == { i * Scale : i \in 0..MaxY }

\* samples of 0, 1 and 2 points: x and y of the same length
SampleInputs ==
    UNION { { [x |-> x, y |-> y] : x \in [1..n -> XValues], y \in [1..n -> YValues] } :
              n \in 0..2 }

\* samples fitted with the arguments of test_three_methods_agree: a line through
\* two points, two points away from the origin, three points off a line, and
\* two points with the same x
LongRunInputs ==
    { [x |-> << 0, Scale >>, y |-> << Scale, 3 * Scale >>],
      [x |-> << Scale, 2 * Scale >>, y |-> << Scale, 0 >>],
      [x |-> << 0, Scale, 2 * Scale >>, y |-> << 0, Scale, 3 * Scale >>],
      [x |-> << Scale, Scale >>, y |-> << Scale, 3 * Scale >>] }

\* method, lr and epochs of a fit call; "newton" is no method of the class
FitArgInputs ==
    { [method |-> m, lr |-> test_lr, epochs |-> 1000] :
        m \in {"analytical", "matrix", "newton"} }
    \cup { [method |-> "gradient_descent", lr |-> test_lr, epochs |-> e] : e \in {0, 2} }

\* the arguments of a call on the object, with the object as it was when the
\* call was made
FitRequest(x, y, method, lr, epochs) ==
    [NoReq EXCEPT !.data = [x |-> x, y |-> y, method |-> method, lr |-> lr,
                            epochs |-> epochs, before |-> instance]]

\* LinearRegression(): the caller replaces its object with a new one
new_instance ==
    /\ pc = "idle"
    /\ instance # NewModel
    /\ instance' = NewModel
    /\ UNCHANGED << pc, op, req, ret, resp, validated, computed, rng, descent, workers >>

\* LinearRegression.fit up to its return, its raise, or the start of the loop
\* of _fit_gradient_descent
fit(x, y, method, lr, epochs) ==
    /\ pc = "idle"
    /\ op' = "fit"
    /\ req' = FitRequest(x, y, method, lr, epochs)
    /\ IF TooFewSamples(x)
       THEN /\ instance' = [slope |-> 0, intercept |-> 0, is_fitted |-> TRUE,
                            method |-> method]
            /\ ret' = Ok(NoValue) /\ pc' = "done" /\ descent' = descent
       ELSE IF method = "analytical"
       THEN /\ instance' = FitAnalytical([instance EXCEPT !.method = method], x, y)
            /\ ret' = Ok(NoValue) /\ pc' = "done" /\ descent' = descent
       ELSE IF method = "matrix"
       THEN /\ instance' = [slope |-> fit_matrix(x, y).slope,
                            intercept |-> fit_matrix(x, y).intercept,
                            is_fitted |-> TRUE, method |-> method]
            /\ ret' = Ok(NoValue) /\ pc' = "done" /\ descent' = descent
       ELSE IF method = "gradient_descent"
       THEN /\ instance' = [instance EXCEPT !.method = method]
            /\ descent' = [slope |-> 0, intercept |-> 0, epoch |-> 0]
            /\ ret' = Ok(NoValue) /\ pc' = "descending"
       ELSE /\ instance' = [instance EXCEPT !.method = method]
            /\ ret' = Raise("ValueError", "UnknownMethod", {method})
            /\ pc' = "done" /\ descent' = descent
    /\ UNCHANGED << resp, validated, computed, rng, workers >>

\* one iteration of "for _ in range(epochs)"
gd_epoch ==
    /\ pc = "descending"
    /\ descent.epoch < req.data.epochs
    /\ LET th == GdStep(req.data.x, req.data.y, req.data.lr, descent) IN
       descent' = [slope |-> th.slope, intercept |-> th.intercept,
                   epoch |-> descent.epoch + 1]
    /\ UNCHANGED << pc, op, req, ret, resp, validated, computed, rng, instance, workers >>

\* range(epochs) is exhausted: the coefficients are stored and fit returns
gd_return ==
    /\ pc = "descending"
    /\ descent.epoch >= req.data.epochs
    /\ instance' = [instance EXCEPT !.slope = Coarse(descent.slope),
                                    !.intercept = Coarse(descent.intercept),
                                    !.is_fitted = TRUE]
    /\ descent' = NoDescent
    /\ pc' = "done"
    /\ UNCHANGED << op, req, ret, resp, validated, computed, rng, workers >>

\* predict without its test of the fitted flag
predict_call_unguarded(x) ==
    /\ pc = "idle"
    /\ pc' = "done"
    /\ op' = "predict"
    /\ req' = FitRequest(x, << >>, "", 0, 0)
    /\ ret' = Ok(predict(instance, x))
    /\ UNCHANGED << resp, validated, computed, rng, instance, descent, workers >>

\* LinearRegression.predict
predict_call(x) ==
    /\ pc = "idle"
    /\ pc' = "done"
    /\ op' = "predict"
    /\ req' = FitRequest(x, << >>, "", 0, 0)
    /\ ret' = IF ~instance.is_fitted
              THEN Raise("RuntimeError", "NotFitted", {})
              ELSE Ok(predict(instance, x))
    /\ UNCHANGED << resp, validated, computed, rng, instance, descent, workers >>

\* LinearRegression.get_params
get_params ==
    /\ pc = "idle"
    /\ pc' = "done"
    /\ op' = "get_params"
    /\ req' = NoReq
    /\ ret' = Ok(<< instance.slope, instance.intercept >>)
    /\ UNCHANGED << resp, validated, computed, rng, instance, descent, workers >>

\* the calls a holder of a LinearRegression object makes, one at a time
FitNext ==
    \/ new_instance
    \/ pc = "idle" /\ \E s \in SampleInputs : \E a \in FitArgInputs :
         fit(s.x, s.y, a.method, a.lr, a.epochs)
    \/ pc = "idle" /\ instance = NewModel /\ \E s \in LongRunInputs :
         fit(s.x, s.y, "gradient_descent", test_lr, test_epochs)
    \/ gd_epoch
    \/ gd_return
    \/ pc = "idle" /\ \E s \in SampleInputs : predict_call(s.x)
    \/ get_params
    \/ finish

FitInit == Init /\ rng = 0

FitSpec == FitInit /\ [][FitNext]_vars

\* the interpreter goes on executing a loop it has entered, and the return
\* that follows it
FairFitSpec == FitSpec /\ WF_vars(gd_epoch) /\ WF_vars(gd_return)

\* ------------------------------- the computation called from several threads

\* the calls a thread makes: a regression without outliers, one with an
\* outlier, and a uniform distribution
WorkerInputs ==
    { Request("linear_regression",
              [slope |-> Fin(Scale), noise_std |-> Fin(Scale), pattern_id |-> Fin(0)],
              min_length),
      Request("linear_regression",
              [slope |-> Fin(Scale), noise_std |-> Fin(Scale),
               pattern_id |-> Fin(2 * Scale)], min_length),
      Request("uniform", [a |-> Fin(0), b |-> Fin(Scale)], min_length) }

\* the threads other than w that are inside a regression calculate
Busy(w) == { v \in Workers \ {w} : workers[v].at \notin {"idle", "returned"} }

\* a call begins on thread w; the calls then in progress overlap with it
Entered(w, c, at, result) ==
    [v \in Workers |->
        IF v = w
        THEN [IdleWorker EXCEPT !.at = at, !.call = c, !.result = result,
                                !.overlapped = Busy(w) # {}]
        ELSE IF v \in Busy(w) THEN [workers[v] EXCEPT !.overlapped = TRUE]
        ELSE workers[v]]

\* n_outliers of the call of thread w, 0 unless the pattern is 2
WorkerOutliers(w) ==
    IF IntOf(workers[w].call.parameters["pattern_id"].v) = 2
    THEN OutlierCount(workers[w].call.num_points)
    ELSE 0

\* calculate_distribution of a type that draws no random numbers
worker_compute(w, c) ==
    /\ workers[w].at = "idle"
    /\ c.dist_type # "linear_regression"
    /\ LET r == calculate_distribution(rng, c.dist_type, c.parameters, c.num_points)
       IN workers' = Entered(w, c, "returned", r.ret) /\ rng' = r.rng
    /\ UNCHANGED << pc, op, req, ret, resp, validated, computed, instance, descent >>

\* calculate of the regression, up to np.random.seed
worker_call(w, c) ==
    /\ workers[w].at = "idle"
    /\ c.dist_type = "linear_regression"
    /\ workers' = Entered(w, c, "called", Ok(NoValue))
    /\ UNCHANGED << pc, op, req, ret, resp, validated, computed, rng, instance, descent >>

\* np.random.seed(42)
worker_seed(w) ==
    /\ workers[w].at = "called"
    /\ rng' = seed(rng)
    /\ workers' = [workers EXCEPT ![w].at = "seeded"]
    /\ UNCHANGED << pc, op, req, ret, resp, validated, computed, instance, descent >>

\* x = np.random.uniform(-5, 5, n_samples); x.sort()
worker_draw_x(w) ==
    /\ workers[w].at = "seeded"
    /\ LET n == workers[w].call.num_points IN
       /\ workers' = [workers EXCEPT ![w].at = "drawn_x",
                                     ![w].x = SortAsc(DrawUniform(rng, n))]
       /\ rng' = RngAfter(rng, n)
    /\ UNCHANGED << pc, op, req, ret, resp, validated, computed, instance, descent >>

\* noise = np.random.normal(0, noise_std, n_samples)
worker_draw_noise(w) ==
    /\ workers[w].at = "drawn_x"
    /\ LET n == workers[w].call.num_points
           noise_std == workers[w].call.parameters["noise_std"].v
       IN /\ workers' = [workers EXCEPT ![w].at = "drawn_noise",
                                        ![w].noise = DrawNormal(rng, noise_std, n)]
          /\ rng' = RngAfter(rng, n)
    /\ UNCHANGED << pc, op, req, ret, resp, validated, computed, instance, descent >>

\* outlier_indices = np.random.choice(n_samples, n_outliers, replace=False)
worker_draw_indices(w) ==
    /\ workers[w].at = "drawn_noise"
    /\ WorkerOutliers(w) > 0
    /\ LET n == workers[w].call.num_points IN
       workers' = [workers EXCEPT
                     ![w].at = "drawn_indices",
                     ![w].outlier_indices =
                         Choice(rng, [i \in 1..n |-> i], WorkerOutliers(w))]
    /\ rng' = RngAfter(rng, WorkerOutliers(w))
    /\ UNCHANGED << pc, op, req, ret, resp, validated, computed, instance, descent >>

\* np.random.choice([-1, 1], n_outliers)
worker_draw_signs(w) ==
    /\ workers[w].at = "drawn_indices"
    /\ workers' = [workers EXCEPT ![w].at = "drawn_signs",
                                  ![w].signs = DrawSigns(rng, WorkerOutliers(w))]
    /\ rng' = RngAfter(rng, WorkerOutliers(w))
    /\ UNCHANGED << pc, op, req, ret, resp, validated, computed, instance, descent >>

\* the rest of calculate: the observations, the fit, the metrics and the
\* result; the locals are gone with the return
worker_return(w) ==
    /\ \/ workers[w].at = "drawn_signs"
       \/ workers[w].at = "drawn_noise" /\ WorkerOutliers(w) = 0
    /\ LET l == workers[w]
           slope == l.call.parameters["slope"].v
           noise_std == l.call.parameters["noise_std"].v
           pattern_id == IntOf(l.call.parameters["pattern_id"].v)
           y_true == YTrue(pattern_id, slope, FixedIntercept(Fin(0)), l.x)
           noisy == [i \in 1..Len(l.x) |-> y_true[i] + l.noise[i]]
           g == [x |-> l.x, y_true |-> y_true,
                 y_observed |-> AddOutliers(noisy, l.outlier_indices, l.signs,
                                            noise_std)]
       IN workers' = [workers EXCEPT
                        ![w] = [IdleWorker EXCEPT
                                  !.at = "returned", !.call = l.call,
                                  !.overlapped = l.overlapped,
                                  !.result = DistributionData(RegressionArrays(g))]]
    /\ UNCHANGED << pc, op, req, ret, resp, validated, computed, rng, instance, descent >>

\* the caller on thread w has taken the result
worker_finish(w) ==
    /\ workers[w].at = "returned"
    /\ workers' = [workers EXCEPT ![w] = IdleWorker]
    /\ UNCHANGED << pc, op, req, ret, resp, validated, computed, rng, instance, descent >>

\* each thread makes one call after the other; the threads run interleaved,
\* each call of np.random being one step
WorkerNext ==
    \E w \in Workers :
        \/ \E c \in WorkerInputs : worker_compute(w, c)
        \/ \E c \in WorkerInputs : worker_call(w, c)
        \/ worker_seed(w)
        \/ worker_draw_x(w)
        \/ worker_draw_noise(w)
        \/ worker_draw_indices(w)
        \/ worker_draw_signs(w)
        \/ worker_return(w)
        \/ worker_finish(w)

WorkerInit == Init /\ rng = 0

WorkerSpec == WorkerInit /\ [][WorkerNext]_vars

\* ================================================================== claims

\* ret holds the answer of validate_distribution_parameters
ValidatorAnswered ==
    \/ op = "validate" /\ pc = "done"
    \/ op = "calculate" /\ pc = "computing"
    \/ op = "calculate" /\ pc = "done" /\ ~computed /\ resp.status # 422

\* ret holds the answer of calculate_distribution
ComputeAnswered ==
    \/ op = "compute" /\ pc = "done"
    \/ op = "calculate" /\ pc = "done" /\ computed

Registered(t) == \E i \in 1..Len(DISTRIBUTION_REGISTRY) : DISTRIBUTION_REGISTRY[i] = t

DescriptorOf(t) ==
    CHOOSE d \in { get_available_distributions[i] :
                     i \in 1..Len(get_available_distributions) } : d.type = t

Params(t) == { DescriptorOf(t).parameters[i] : i \in 1..Len(DescriptorOf(t).parameters) }
Names(t) == { pd.name : pd \in Params(t) }
Provided == DOMAIN req.parameters
KeyError == ~ret.ok /\ ret.kind \in {"missing", "extra"}

\* C1: the validator raises a key-set error whenever the supplied key set
\* differs from the descriptor's parameter names (a key missing or a key extra),
\* and raises no key-set error when the two sets are equal.
C1_KeySetChecked ==
    (ValidatorAnswered /\ Registered(req.dist_type)) =>
        (KeyError <=> Provided # Names(req.dist_type))

\* a map that only adds a key to the descriptor's was refused for its key set
C1_Witness ==
    /\ ValidatorAnswered
    /\ Registered(req.dist_type)
    /\ Names(req.dist_type) \subseteq Provided
    /\ Provided # Names(req.dist_type)
    /\ ret.kind = "extra"

\* a finite value between the bounds of its parameter, both bounds included
InBounds(pd, value) ==
    /\ value.k = "fin"
    /\ pd.min_value <= value.v
    /\ value.v <= pd.max_value

\* C2: a map with the descriptor's key set is accepted if and only if every
\* value lies in [min_value, max_value] of its parameter, bounds included.
C2_RangeInclusive ==
    (ValidatorAnswered /\ Registered(req.dist_type)
        /\ Provided = Names(req.dist_type)) =>
        (ret.ok <=> \A pd \in Params(req.dist_type) :
                        InBounds(pd, req.parameters[pd.name]))

\* a map with one value at min_value and another at max_value was accepted
C2_Witness ==
    /\ ValidatorAnswered
    /\ Registered(req.dist_type)
    /\ ret.ok
    /\ \E pd \in Params(req.dist_type) : req.parameters[pd.name] = Fin(pd.min_value)
    /\ \E pd \in Params(req.dist_type) : req.parameters[pd.name] = Fin(pd.max_value)

NonFinite(parameters) ==
    \E key \in DOMAIN parameters : parameters[key].k \in {"nan", "inf"}

\* C3: a map holding NaN, +Infinity or -Infinity is refused by the request
\* model (status 422, the handler's validator and the computation are never
\* run) and by validate_distribution_parameters called directly; no such map
\* reaches calculate_distribution through the compute endpoint.
C3_NonFiniteRejected ==
    /\ (op = "calculate" /\ NonFinite(req.parameters)) =>
          /\ pc = "done"
          /\ resp.status = 422
          /\ "parameters" \in ret.names
          /\ ~validated /\ ~computed
    /\ (op = "validate" /\ pc = "done" /\ NonFinite(req.parameters)) => ~ret.ok
    /\ (op = "calculate" /\ (computed \/ pc = "computing")) => ~NonFinite(req.parameters)

\* a request whose keys are the descriptor's and whose only flaw is an
\* infinite value was answered 422
C3_Witness ==
    /\ op = "calculate" /\ pc = "done"
    /\ Registered(req.dist_type)
    /\ Provided = Names(req.dist_type)
    /\ \E key \in Provided : req.parameters[key].k = "inf"
    /\ \A key \in Provided : req.parameters[key].k # "nan"
    /\ req.num_points = num_points_ge
    /\ resp.status = 422

MissingKeys == Names(req.dist_type) \ Provided
ExtraKeys == Provided \ Names(req.dist_type)
OutOfBounds ==
    { pd.name : pd \in { q \in Params(req.dist_type) :
                           ~InBounds(q, req.parameters[q.name]) } }

\* C4 as stated: the key-set error names all missing and all extra keys, the
\* range error names every parameter out of range.
C4_Exhaustive ==
    (ValidatorAnswered /\ Registered(req.dist_type) /\ ~ret.ok) =>
        /\ ret.kind \in {"missing", "extra"} => ret.names = MissingKeys \cup ExtraKeys
        /\ ret.kind = "range" => ret.names = OutOfBounds

\* position of a parameter in the descriptor
Position(t, name) ==
    CHOOSE i \in 1..Len(DescriptorOf(t).parameters) :
        DescriptorOf(t).parameters[i].name = name

\* C4 amended: if a key is missing the error names exactly the missing keys
\* (extra keys are not reported); otherwise, if a key is extra, it names
\* exactly the extra keys; otherwise, if a value is out of range, it names
\* only the first such parameter in descriptor order.
C4_FirstViolationReported ==
    (ValidatorAnswered /\ Registered(req.dist_type)) =>
        IF MissingKeys # {} THEN ret.kind = "missing" /\ ret.names = MissingKeys
        ELSE IF ExtraKeys # {} THEN ret.kind = "extra" /\ ret.names = ExtraKeys
        ELSE IF OutOfBounds # {}
        THEN /\ ret.kind = "range"
             /\ \E name \in OutOfBounds :
                   /\ ret.names = {name}
                   /\ \A other \in OutOfBounds :
                         Position(req.dist_type, name) <= Position(req.dist_type, other)
        ELSE ret.ok

\* two values were out of range and the error named one of them
C4_Witness ==
    /\ ValidatorAnswered
    /\ Registered(req.dist_type)
    /\ MissingKeys = {} /\ ExtraKeys = {}
    /\ Cardinality(OutOfBounds) >= 2
    /\ ret.kind = "range"
    /\ Cardinality(ret.names) = 1

\* the types calculate_distribution has a branch for
Dispatched == {"uniform", "exponential", "linear_regression"}

\* C5: get_distribution_info raises the unknown-model ValueError exactly for
\* the types that are not registered; calculate_distribution raises it for an
\* unregistered type, raises NotImplementedError exactly for a registered type
\* without a dispatch branch, and raises neither for a registered, dispatched
\* type.
C5_RegistryErrors ==
    /\ (op = "info" /\ pc = "done") =>
          /\ Registered(req.dist_type) => ret.ok /\ ret.val = DescriptorOf(req.dist_type)
          /\ ~Registered(req.dist_type) =>
                ~ret.ok /\ ret.exc = "ValueError" /\ ret.kind = "UnknownModel"
    /\ (op = "compute" /\ pc = "done") =>
          /\ ~Registered(req.dist_type) =>
                ~ret.ok /\ ret.exc = "ValueError" /\ ret.kind = "UnknownModel"
          /\ Registered(req.dist_type) => ret.kind # "UnknownModel"
          /\ ret.exc = "NotImplementedError" <=>
                (Registered(req.dist_type) /\ req.dist_type \notin Dispatched)

\* a direct lookup of an unregistered type raised the unknown-model error
C5_Witness ==
    /\ op = "info" /\ pc = "done"
    /\ ~Registered(req.dist_type)
    /\ ret.kind = "UnknownModel"

\* C6 as stated: a request naming an unregistered type is answered 404 on the
\* describe and on the compute endpoint.
C6_UnknownIsNotFound ==
    (op \in {"describe", "calculate"} /\ pc = "done" /\ ~Registered(req.dist_type)) =>
        resp.status = 404

\* C6 amended: a request naming an unregistered type is answered 422 on both
\* endpoints, by the enumeration check that precedes the handler, and never
\* 404; in the compute handler every ValueError (validation error or invalid
\* parameters) is answered 400, any other exception 500, and a result 200.
C6_StatusMapping ==
    /\ (op \in {"describe", "calculate"} /\ pc = "done" /\ ~Registered(req.dist_type)) =>
          resp.status = 422
    /\ (op = "describe" /\ pc = "done" /\ Registered(req.dist_type)) =>
          resp.status = 200
    /\ (op = "calculate" /\ pc = "done" /\ ret.exc # "RequestValidationError") =>
          /\ ret.kind \in {"missing", "extra", "range", "InvalidParameters",
                           "DataInvalid", "UnknownModel"} => resp.status = 400
          /\ ret.kind = "NotImplemented" => resp.status = 500
          /\ ret.ok => resp.status = 200

\* a compute request naming a type outside the enumeration was answered 422
C6_Witness ==
    /\ op = "calculate" /\ pc = "done"
    /\ ~Registered(req.dist_type)
    /\ resp.status = 422

\* C7: in the compute endpoint calculate_distribution is invoked only after
\* validate_distribution_parameters returned without error for the request,
\* and a response to a failed validation or computation carries no result.
C7_ValidateBeforeCompute ==
    op = "calculate" =>
        /\ computed => validated
        /\ pc = "computing" => validated /\ ret.ok
        /\ validated => /\ Provided = Names(req.dist_type)
                        /\ \A pd \in Params(req.dist_type) :
                              InBounds(pd, req.parameters[pd.name])
        /\ (pc = "done" /\ resp.status # 200) => resp.body = NoValue
        /\ (pc = "done" /\ resp.status = 200) => computed /\ ret.ok /\ resp.body = ret.val

\* a validated request whose computation raised was answered without a result
C7_Witness ==
    /\ op = "calculate" /\ pc = "done"
    /\ validated /\ computed
    /\ ~ret.ok
    /\ resp.status = 400
    /\ resp.body = NoValue

ArgA == Get(req.parameters, "a", 0)
ArgB == Get(req.parameters, "b", Scale)

\* C8: UniformDistribution.calculate raises the invalid-parameters ValueError
\* and returns no result whenever a >= b, also for the pairs the validator
\* accepts, and does not raise it when a < b.
C8_UniformRejectsAGeB ==
    (ComputeAnswered /\ req.dist_type = "uniform"
        /\ ArgA.k = "fin" /\ ArgB.k = "fin") =>
        /\ ArgA.v >= ArgB.v => /\ ~ret.ok
                               /\ ret.exc = "ValueError"
                               /\ ret.kind = "InvalidParameters"
                               /\ ret.val = NoValue
        /\ ArgA.v < ArgB.v => ret.kind # "InvalidParameters"
        /\ (op = "calculate" /\ ArgA.v >= ArgB.v) =>
              resp.status = 400 /\ resp.body = NoValue

\* a pair a > b inside [-10, 10] passed the validator and was refused by the
\* computation
C8_Witness ==
    /\ op = "calculate" /\ pc = "done" /\ computed
    /\ req.dist_type = "uniform"
    /\ validated
    /\ ArgA.k = "fin" /\ ArgB.k = "fin" /\ ArgA.v > ArgB.v
    /\ ret.kind = "InvalidParameters"

\* the sequences a result of the given type carries
SequencesOf(t) ==
    IF t = "linear_regression" THEN {"y_true", "y_observed", "y_fitted"}
    ELSE {"pdf_values", "cdf_values"}

\* C9: a successful compute with sample count n returns sequences that all
\* have length n: x_values, pdf_values and cdf_values for a distribution,
\* x_values, y_true, y_observed and y_fitted for the regression.
C9_LengthIsSampleCount ==
    (ComputeAnswered /\ ret.ok) =>
        /\ Len(ret.val.x_values) = req.num_points
        /\ SequencesOf(req.dist_type) = ret.val.present \cap SeqFields
        /\ \A f \in SequencesOf(req.dist_type) : Len(ret.val[f]) = req.num_points

\* the compute endpoint returned a regression result for more than 10 samples
C9_Witness ==
    /\ op = "calculate" /\ pc = "done"
    /\ req.dist_type = "linear_regression"
    /\ req.num_points > num_points_ge
    /\ resp.status = 200
    /\ Len(resp.body.y_fitted) = req.num_points

\* C10 as stated: a DistributionData is constructed if and only if every
\* derived sequence that is present has the length of x_values.
C10_AllLengthsChecked ==
    (op = "construct" /\ pc = "done") =>
        (ret.ok <=> \A f \in req.data.present \cap SeqFields :
                       Len(req.data[f]) = Len(req.data.x_values))

\* a DistributionData was constructed, directly or by a computation
Constructed ==
    /\ pc = "done"
    /\ op \in {"construct", "compute", "calculate"}
    /\ op = "calculate" => computed
    /\ ret.ok

AllFinite(v) == \A i \in 1..Len(v) : v[i].k = "fin"

\* C11 as stated: a DistributionData whose construction succeeded holds no NaN
\* and no infinity in any field: not in x_values, not in a derived sequence
\* that is present, not in mean, variance, std_dev, and not in r_squared,
\* slope_estimated, intercept_estimated or rmse.
C11_NoNanInfAnywhere ==
    Constructed =>
        /\ AllFinite(ret.val.x_values)
        /\ \A f \in ret.val.present \cap SeqFields : AllFinite(ret.val[f])
        /\ ret.val.mean.k = "fin"
        /\ ret.val.variance.k = "fin"
        /\ ret.val.std_dev.k = "fin"
        /\ \A f \in ScalarFields : ret.val.scalars[f].k = "fin"

\* C12 as stated: a DistributionParameter whose construction succeeded has
\* min_value < max_value and min_value <= default_value <= max_value, and the
\* construction fails whenever min_value >= max_value and whenever
\* default_value lies outside [min_value, max_value].
C12_ParameterInvariant ==
    (op = "parameter" /\ pc = "done") =>
        LET d == req.data.default_value
            lo == req.data.min_value
            hi == req.data.max_value
            inside == Le(lo, d) /\ Le(d, hi)
        IN /\ ret.ok => (Le(lo, hi) /\ lo # hi /\ inside)
           /\ Ge(lo, hi) => ~ret.ok
           /\ ~inside => ~ret.ok

\* the parameter map built from a descriptor's own defaults
DefaultsOf(t) ==
    [name \in Names(t) |->
        Fin((CHOOSE pd \in Params(t) : pd.name = name).default_value)]

\* C13: for every registered descriptor the map of its parameters' defaults
\* passes validate_distribution_parameters, and whenever the validator is
\* handed that map it answers without error.
C13_DefaultsPass ==
    /\ \A t \in RegistryKeys : validate_distribution_parameters(t, DefaultsOf(t)).ok
    /\ (ValidatorAnswered /\ Registered(req.dist_type)
           /\ req.parameters = DefaultsOf(req.dist_type)) => ret.ok

\* the compute endpoint validated the regression's default map and went on
C13_Witness ==
    /\ op = "calculate" /\ pc = "computing"
    /\ req.dist_type = "linear_regression"
    /\ req.parameters = DefaultsOf("linear_regression")
    /\ validated

\* C14: every answer of the listing holds exactly one descriptor per registry
\* entry, in registration order (uniform, exponential, linear_regression), and
\* is the same sequence whatever calls were made before it.
C14_ListInRegistrationOrder ==
    (op = "list" /\ pc = "done") =>
        LET listed == resp.body.list IN
        /\ resp.status = 200
        /\ Len(listed) = Len(DISTRIBUTION_REGISTRY)
        /\ \A i \in 1..Len(listed) :
              /\ listed[i].type = DISTRIBUTION_REGISTRY[i]
              /\ listed[i] = get_info(DISTRIBUTION_REGISTRY[i])
        /\ [i \in 1..Len(listed) |-> listed[i].type] =
              << "uniform", "exponential", "linear_regression" >>

\* the listing was answered after a regression computation had moved the
\* global generator away from its state at start-up
C14_Witness ==
    /\ op = "list" /\ pc = "done"
    /\ rng \notin RngInputs
    /\ Len(resp.body.list) = Len(DISTRIBUTION_REGISTRY)

\* a uniform computation returned a result for finite a < b
UniformReturned ==
    ComputeAnswered /\ req.dist_type = "uniform" /\ ret.ok

\* q is the quotient num / den to the resolution of the fixed-point numbers
IsQuotient(q, num, den) == q * den <= num /\ num < (q + 1) * den

\* C15: for a < b every returned pdf value is 1/(b-a) where a <= x <= b, both
\* ends included, and 0 elsewhere; x_values are num_points evenly spaced
\* points from a - 0.2(b-a) to b + 0.2(b-a).
C15_UniformDensity ==
    UniformReturned =>
        LET a == ArgA.v
            b == ArgB.v
            n == req.num_points
            x == ret.val.x_values
            pdf == ret.val.pdf_values
        IN /\ a < b
           /\ Len(x) = n /\ Len(pdf) = n
           /\ IsQuotient(a - x[1].v, b - a, 5)
           /\ IsQuotient(x[n].v - b, b - a, 5)
           /\ \A i \in 1..n :
                 /\ IsQuotient(x[i].v - x[1].v, (i - 1) * (x[n].v - x[1].v), n - 1)
                 /\ (a <= x[i].v /\ x[i].v <= b) =>
                       IsQuotient(pdf[i].v, Scale * Scale, b - a)
                 /\ (x[i].v < a \/ x[i].v > b) => pdf[i].v = 0

\* a result in which one sample lies on a and one on b, both with the density
\* 1/(b-a), and the samples outside [a, b] have density 0
C15_Witness ==
    /\ UniformReturned
    /\ \E i, j \in 1..req.num_points :
          /\ ret.val.x_values[i].v = ArgA.v /\ ret.val.pdf_values[i].v > 0
          /\ ret.val.x_values[j].v = ArgB.v /\ ret.val.pdf_values[j].v > 0
    /\ ret.val.pdf_values[1].v = 0
    /\ ret.val.pdf_values[req.num_points].v = 0

\* C16: for a < b every returned cdf value is clamp((x-a)/(b-a), 0, 1): it
\* lies in [0, 1], is non-decreasing along x_values, is below 0.01 at the
\* leftmost sample and above 0.99 at the rightmost.
C16_UniformCdf ==
    UniformReturned =>
        LET a == ArgA.v
            b == ArgB.v
            n == req.num_points
            x == ret.val.x_values
            cdf == ret.val.cdf_values
        IN /\ Len(cdf) = n
           /\ \A i \in 1..n :
                 /\ cdf[i].k = "fin"
                 /\ 0 <= cdf[i].v /\ cdf[i].v <= Scale
                 /\ x[i].v <= a => cdf[i].v = 0
                 /\ x[i].v >= b => cdf[i].v = Scale
                 /\ (a < x[i].v /\ x[i].v < b) =>
                       IsQuotient(cdf[i].v, (x[i].v - a) * Scale, b - a)
           /\ \A i \in 1..(n - 1) : cdf[i].v <= cdf[i + 1].v
           /\ cdf[1].v < Scale \div 100
           /\ cdf[n].v > 99 * (Scale \div 100)

\* a result whose cdf starts at 0, ends at 1 and passes through a value
\* strictly between them
C16_Witness ==
    /\ UniformReturned
    /\ ret.val.cdf_values[1].v = 0
    /\ ret.val.cdf_values[req.num_points].v = Scale
    /\ \E i \in 1..req.num_points :
          0 < ret.val.cdf_values[i].v /\ ret.val.cdf_values[i].v < Scale

\* a fit call has ended, by a return or by a raise
FitEnded == op = "fit" /\ pc = "done"

\* C17: fit with fewer than 2 samples returns without raising and leaves
\* slope = 0 and intercept = 0, for each of the methods analytical, matrix and
\* gradient_descent, whatever coefficients the object held before; the
\* descent's loop is not entered.
C17_DegenerateFit ==
    (op = "fit" /\ Len(req.data.x) < 2 /\ req.data.method \in Methods) =>
        /\ pc = "done"
        /\ ret.ok
        /\ instance.slope = 0 /\ instance.intercept = 0
        /\ instance.is_fitted
        /\ instance.method = req.data.method

\* a gradient-descent fit of a single sample zeroed an object that held
\* non-zero coefficients
C17_Witness ==
    /\ FitEnded
    /\ Len(req.data.x) = 1
    /\ req.data.method = "gradient_descent"
    /\ req.data.before.is_fitted
    /\ req.data.before.slope # 0 /\ req.data.before.intercept # 0
    /\ instance.slope = 0 /\ instance.intercept = 0

\* two estimates agree on slope and on intercept within the tolerance
Agree(p, q) ==
    /\ Abs(p.slope - q.slope) < tolerance
    /\ Abs(p.intercept - q.intercept) < tolerance

\* C18 as stated: for every sample of at least 2 points the analytical and
\* the matrix estimates agree within the tolerance, and the gradient-descent
\* estimate (lr=0.01, epochs=5000) agrees with both, also when all x are equal.
C18_ThreeMethodsAgree ==
    (FitEnded /\ ret.ok /\ Len(req.data.x) >= 2) =>
        LET a == fit_analytical(req.data.x, req.data.y)
            m == fit_matrix(req.data.x, req.data.y)
        IN /\ Agree(a, m)
           /\ (/\ req.data.method = "gradient_descent"
               /\ req.data.lr = test_lr
               /\ req.data.epochs = test_epochs) =>
                 Agree(instance, a) /\ Agree(instance, m)

\* sum of the products of the deviations of u and v from their means mu and mv
Covariation(u, mu, v, mv) ==
    SumSeq([i \in 1..Len(u) |-> ((u[i] - mu) * (v[i] - mv)) \div Scale])

RegressionReturned ==
    ComputeAnswered /\ req.dist_type = "linear_regression" /\ ret.ok

ArgSlope == Get(req.parameters, "slope", Scale)
ArgNoiseStd == Get(req.parameters, "noise_std", Scale)
ArgPattern == Get(req.parameters, "pattern_id", 0)

\* the noise the computation draws for sample i of n
NoiseAt(i, n) == Mul(ArgNoiseStd.v, NormalDraw(RngAfter(Seed, n + i)))

\* what the same call returns with pattern_id = 0
PatternZeroResult ==
    RegressionCalculate(rng, ArgSlope, ArgNoiseStd, Fin(0),
                        Get(req.parameters, "intercept", 0), req.num_points).ret

\* C20 as stated: x_values is sorted ascending with every value in [-5, 5];
\* with pattern 0 y_true = slope*x and y_observed = y_true + noise; with
\* pattern 1 y_true = slope*x + 0.5*x^2 and y_observed = y_true + noise; with
\* any pattern value other than 0, 1 and 2 the result is the pattern-0 result.
C20_PatternsAsStated ==
    RegressionReturned =>
        LET n == req.num_points
            x == ret.val.x_values
            y_true == ret.val.y_true
            y_observed == ret.val.y_observed
            line(i) == Mul(ArgSlope.v, x[i].v)
        IN /\ \A i \in 1..n : -5 * Scale <= x[i].v /\ x[i].v <= 5 * Scale
           /\ \A i \in 1..(n - 1) : x[i].v <= x[i + 1].v
           /\ ArgPattern = Fin(0) =>
                 \A i \in 1..n : /\ y_true[i].v = line(i)
                                  /\ y_observed[i].v = y_true[i].v + NoiseAt(i, n)
           /\ ArgPattern = Fin(Scale) =>
                 \A i \in 1..n :
                    /\ y_true[i].v = line(i) + Mul(x[i].v, x[i].v) \div 2
                    /\ y_observed[i].v = y_true[i].v + NoiseAt(i, n)
           /\ ArgPattern \notin {Fin(0), Fin(Scale), Fin(2 * Scale)} =>
                 ret = PatternZeroResult

\* a regression computation was called with pattern 2 and arguments from
\* which it generates data
PatternTwoCalled ==
    /\ ComputeAnswered
    /\ req.dist_type = "linear_regression"
    /\ ArgPattern = Fin(2 * Scale)
    /\ ArgSlope.k = "fin" /\ ArgNoiseStd.k = "fin" /\ ArgNoiseStd.v >= 0

\* the data of the call: the returned sequences, or for a sample count below
\* min_length, for which no result is constructed, the generated arrays
PatternTwoData ==
    IF ret.ok
    THEN [x |-> [i \in 1..req.num_points |-> ret.val.x_values[i].v],
          y_true |-> [i \in 1..req.num_points |-> ret.val.y_true[i].v],
          y_observed |-> [i \in 1..req.num_points |-> ret.val.y_observed[i].v]]
    ELSE LET g == RegressionData(rng, ArgSlope.v, ArgNoiseStd.v, ArgPattern.v,
                                 Fin(0), req.num_points)
         IN [x |-> g.x, y_true |-> g.y_true, y_observed |-> g.y_observed]

\* what was added to sample i beyond y_true and the noise
ShiftAt(i) ==
    PatternTwoData.y_observed[i] - PatternTwoData.y_true[i] - NoiseAt(i, req.num_points)

ShiftedIndices == { i \in 1..req.num_points : ShiftAt(i) # 0 }

\* C21: with pattern 2 and n samples exactly floor(n/10) pairwise distinct
\* indices have y_observed = y_true + noise + s*(5*noise_std + 5) with s = -1
\* or s = +1, every other index has y_observed = y_true + noise, y_true is
\* slope*x at every index, and for floor(n/10) = 0 nothing is shifted.
C21_OutliersShifted ==
    PatternTwoCalled =>
        LET n == req.num_points
            d == PatternTwoData
            magnitude == 5 * ArgNoiseStd.v + 5 * Scale
        IN /\ ret.ok <=> n >= min_length
           /\ Len(d.y_observed) = n /\ Len(d.y_true) = n
           /\ Cardinality(ShiftedIndices) = n \div 10
           /\ \A i \in ShiftedIndices : ShiftAt(i) \in {magnitude, -magnitude}
           /\ \A i \in 1..n : d.y_true[i] = Mul(ArgSlope.v, d.x[i])
           /\ n \div 10 = 0 => d.y_observed =
                 [i \in 1..n |-> d.y_true[i] + NoiseAt(i, n)]

\* a result of 20 samples in which two different samples were shifted
C21_Witness ==
    /\ PatternTwoCalled
    /\ ret.ok
    /\ req.num_points = TwoOutliersN
    /\ Cardinality(ShiftedIndices) = 2
    /\ \A i \in ShiftedIndices :
          Abs(ShiftAt(i)) = 5 * ArgNoiseStd.v + 5 * Scale

\* the map without its "intercept" key
WithoutIntercept(parameters) ==
    [key \in (DOMAIN parameters) \ {"intercept"} |-> parameters[key]]

\* the map with the given value under "intercept"
WithIntercept(parameters, value) ==
    [key \in (DOMAIN parameters) \cup {"intercept"} |->
        IF key = "intercept" THEN value ELSE parameters[key]]

\* intercept arguments a second call is made with
InterceptInputs == FinSet({-3 * Scale, 0, Scale})

\* C22: a regression calculate returns what the same call returns without an
\* intercept argument and with any other intercept argument; the descriptor
\* lists no "intercept", the validator refuses every map holding that key (as
\* an extra key when no key is missing), and no such map reaches the
\* computation through the compute endpoint.
C22_InterceptFixed ==
    /\ (ComputeAnswered /\ req.dist_type = "linear_regression") =>
          /\ ret = calculate_distribution(rng, req.dist_type,
                       WithoutIntercept(req.parameters), req.num_points).ret
          /\ \A value \in InterceptInputs :
                ret = calculate_distribution(rng, req.dist_type,
                          WithIntercept(req.parameters, value), req.num_points).ret
    /\ "intercept" \notin ParamNames(get_info("linear_regression"))
    /\ (ValidatorAnswered /\ "intercept" \in Provided) =>
          /\ ~ret.ok
          /\ (Registered(req.dist_type) /\ MissingKeys = {}) =>
                ret.kind = "extra" /\ "intercept" \in ret.names
    /\ (op = "calculate" /\ (computed \/ pc = "computing")) =>
          "intercept" \notin Provided

\* a direct call with intercept = 3 returned a result with data generated
\* about the line through the origin
C22_Witness ==
    /\ op = "compute" /\ pc = "done"
    /\ req.dist_type = "linear_regression"
    /\ "intercept" \in Provided
    /\ req.parameters["intercept"] = Fin(3 * Scale)
    /\ ArgPattern = Fin(0)
    /\ ret.ok
    /\ \A i \in 1..req.num_points :
          ret.val.y_true[i].v = Mul(ArgSlope.v, ret.val.x_values[i].v)

\* thread w holds the result of a call during which no other call was in
\* progress
ReturnedAlone(w) == workers[w].at = "returned" /\ ~workers[w].overlapped

\* what the call of thread w returns when it is made now, after every call
\* made so far
SameCallNow(w) ==
    calculate_distribution(rng, workers[w].call.dist_type,
                           workers[w].call.parameters, workers[w].call.num_points).ret

\* C23: two compute calls with the same type, parameters and sample count
\* return identical results, whatever calls were executed before or between
\* them: a result held by a caller is the result the same call returns when
\* made again, and two callers holding results of the same call hold the same
\* result.
C23_ComputeDeterministic ==
    /\ \A w \in Workers : ReturnedAlone(w) => workers[w].result = SameCallNow(w)
    /\ \A v, w \in Workers :
          (ReturnedAlone(v) /\ ReturnedAlone(w)
              /\ workers[v].call = workers[w].call) =>
             workers[v].result = workers[w].result

\* two callers hold the same result of the same regression call with an
\* outlier, made one after the other, the first having left the generator
\* where the second did not start from the seed
C23_Witness ==
    /\ \A w \in Workers :
          /\ ReturnedAlone(w)
          /\ workers[w].call.dist_type = "linear_regression"
          /\ workers[w].call.parameters["pattern_id"] = Fin(2 * Scale)
          /\ workers[w].result.ok
    /\ workers[1].call = workers[2].call
    /\ workers[1].result = workers[2].result
    /\ rng \notin {0, Seed}

\* C24 as stated: a regression computation that ran interleaved with another
\* one on a second thread returns the result it returns when run alone.
C24_InterleavingHarmless ==
    \A w \in Workers :
        (workers[w].at = "returned" /\ workers[w].call.dist_type = "linear_regression") =>
            workers[w].result =
                calculate_distribution(Seed, workers[w].call.dist_type,
                                       workers[w].call.parameters,
                                       workers[w].call.num_points).ret

\* sum of the squared differences of two sequences
SumSquares(u, v) == SumSeq([i \in 1..Len(u) |-> ((u[i] - v[i]) * (u[i] - v[i])) \div Scale])

\* calculate_r_squared has returned; the value follows the formula
RSquaredByFormula ==
    LET y_true == req.data.y_true
        mean_y == SumSeq(y_true) \div Len(y_true)
        ss_tot == SumSquares(y_true, [i \in 1..Len(y_true) |-> mean_y])
        ss_res == SumSquares(y_true, req.data.y_pred)
    IN IF ss_tot = 0 THEN ret.val = 0
       ELSE IsQuotient(Scale - ret.val, ss_res * Scale, ss_tot)

\* C25 as stated: calculate_r_squared returns 0 when SS_tot = 0 and
\* 1 - SS_res/SS_tot otherwise, and the value it returns lies between 0 and 1
\* for every pair of sequences of equal length.
C25_RSquaredInUnitRange ==
    (op = "r_squared" /\ pc = "done") =>
        /\ ret.ok
        /\ RSquaredByFormula
        /\ 0 <= ret.val /\ ret.val <= Scale

\* C26: a describe request whose type string is no member of the
\* DistributionType enumeration is answered 422 without a body before
\* get_distribution_info is called; the lookup is reached only with members
\* of the enumeration, and a member is never answered 422.
C26_DescribeRejectsNonMembers ==
    (op = "describe" /\ pc = "done") =>
        /\ req.dist_type \notin DistributionType =>
              /\ resp.status = 422
              /\ resp.body = NoValue
              /\ ret.exc = "RequestValidationError"
              /\ ret.kind # "UnknownModel"
        /\ req.dist_type \in DistributionType =>
              /\ resp.status # 422
              /\ ret = get_distribution_info(req.dist_type)
        /\ ret.exc # "RequestValidationError" => req.dist_type \in DistributionType

\* the describe endpoint answered 422 to a type string outside the enumeration
C26_Witness ==
    /\ op = "describe" /\ pc = "done"
    /\ req.dist_type \notin DistributionType
    /\ ret.exc = "RequestValidationError"
    /\ resp = Response(422, NoValue)

\* the step is a normal return of fit
FitReturns == pc # "done" /\ pc' = "done" /\ op' = "fit" /\ ret'.ok

\* the step replaces the object by a new one
NewInstanceStep == instance # NewModel /\ instance' = NewModel /\ UNCHANGED << pc, op, ret >>

\* the step is a call of predict
PredictStep == pc = "idle" /\ op' = "predict"

C27_Step ==
    /\ NewInstanceStep \/ (instance'.is_fitted <=> (instance.is_fitted \/ FitReturns))
    /\ PredictStep =>
          /\ pc' = "done"
          /\ instance' = instance
          /\ ~instance.is_fitted => ~ret'.ok /\ ret'.exc = "RuntimeError"
          /\ instance.is_fitted =>
                ret' = Ok([i \in 1..Len(req'.data.x) |->
                             (instance.slope * req'.data.x[i]) \div Scale
                                 + instance.intercept])

\* C27: on one LinearRegression object the fitted flag is false until a fit
\* call returns normally and true from then on, through every later fit
\* (also one that raises), predict and get_params call; predict raises
\* RuntimeError exactly while the flag is false, and otherwise returns
\* slope*x + intercept for the current coefficients.
C27_FittedFlag == [][C27_Step]_vars

\* predict returned non-zero predictions on an object whose last fit call
\* raised for its method name, after an earlier fit had set the coefficients
C27_Witness ==
    /\ op = "predict" /\ pc = "done"
    /\ ret.ok
    /\ instance.method \notin Methods
    /\ instance.is_fitted
    /\ instance.slope # 0
    /\ \E i \in 1..Len(req.data.x) : ret.val[i] # 0

\* C28 as stated: fit called with a method name other than analytical, matrix
\* and gradient_descent raises ValueError for every input, whatever its
\* length, and a fit call that raises leaves slope, intercept and the fitted
\* flag as they were before the call.
C28_UnknownMethodRaises ==
    FitEnded =>
        /\ req.data.method \notin Methods => ~ret.ok /\ ret.exc = "ValueError"
        /\ ~ret.ok =>
              /\ instance.slope = req.data.before.slope
              /\ instance.intercept = req.data.before.intercept
              /\ instance.is_fitted = req.data.before.is_fitted

\* the values of a discrete selector over 0, 1 and 2
SelectorValues == FinSet({0, Scale, 2 * Scale})

\* C29 as stated: every pattern_id the validator accepts is one of 0, 1 and 2,
\* and the regression calculate returns no result for a pattern_id that is
\* not an integer, so none is mapped onto a pattern by truncation.
C29_PatternIsDiscrete ==
    /\ (ValidatorAnswered /\ req.dist_type = "linear_regression" /\ ret.ok) =>
          req.parameters["pattern_id"] \in SelectorValues
    /\ RegressionReturned => ArgPattern.v % Scale = 0

\* the gradient of mean((y_pred - y)^2) at the coefficients th, in the units
\* of the descent
MseGradient(x, y, th) ==
    LET n == Len(x)
        residual(i) == (th.slope * x[i]) \div Scale + th.intercept - y[i] * Fine
    IN [slope |-> (2 * SumSeq([i \in 1..n |-> residual(i) * x[i]])) \div (n * Scale),
        intercept |-> (2 * SumSeq([i \in 1..n |-> residual(i)])) \div n]

RECURSIVE DescentAfter(_, _, _, _, _)
\* the coefficients after k update steps from th
DescentAfter(x, y, lr, th, k) ==
    IF k = 0 THEN th
    ELSE LET g == MseGradient(x, y, th) IN
         DescentAfter(x, y, lr,
                      [slope |-> th.slope - (lr * g.slope) \div Scale,
                       intercept |-> th.intercept - (lr * g.intercept) \div Scale],
                      k - 1)

\* epoch counts for which the whole run is recomputed in one evaluation
ShortRun == 0..2

C30_Step ==
    /\ (pc = "idle" /\ pc' = "descending") =>
          descent' = [slope |-> 0, intercept |-> 0, epoch |-> 0]
    /\ (pc = "descending" /\ pc' = "descending") =>
          LET g == MseGradient(req.data.x, req.data.y, descent) IN
          /\ descent'.epoch = descent.epoch + 1
          /\ descent'.epoch <= req.data.epochs
          /\ descent'.slope = descent.slope - (req.data.lr * g.slope) \div Scale
          /\ descent'.intercept =
                descent.intercept - (req.data.lr * g.intercept) \div Scale
          /\ UNCHANGED << instance, req >>
    /\ (pc = "descending" /\ pc' = "done") =>
          /\ descent.epoch = req.data.epochs
          /\ ret'.ok
          /\ instance'.slope = Coarse(descent.slope)
          /\ instance'.intercept = Coarse(descent.intercept)
          /\ instance'.is_fitted

\* a gradient-descent fit of at least 2 samples has returned
DescentReturned ==
    FitEnded /\ ret.ok /\ req.data.method = "gradient_descent" /\ Len(req.data.x) >= 2

C30_Result ==
    DescentReturned =>
        /\ req.data.epochs = 0 => instance.slope = 0 /\ instance.intercept = 0
        /\ req.data.epochs \in ShortRun =>
              LET th == DescentAfter(req.data.x, req.data.y, req.data.lr,
                                     [slope |-> 0, intercept |-> 0], req.data.epochs)
              IN /\ instance.slope = Coarse(th.slope)
                 /\ instance.intercept = Coarse(th.intercept)

\* C30: the gradient-descent fit starts from slope = intercept = 0, makes
\* exactly epochs update steps, each subtracting lr times the gradient of the
\* mean squared error at the current coefficients from slope and intercept,
\* and then returns; with epochs = 0 it returns slope = intercept = 0; the
\* coefficients it returns depend on (x, y, lr, epochs) only, whatever the
\* object held before.
C30_DescentRuns ==
    /\ [][C30_Step]_vars
    /\ [](pc = "descending" => descent.epoch <= req.data.epochs)
    /\ []C30_Result
    /\ (pc = "descending") ~> (pc = "done")

\* a descent of two epochs returned non-zero coefficients on an object that
\* held other coefficients from an earlier fit
C30_Witness ==
    /\ DescentReturned
    /\ req.data.epochs = 2
    /\ req.data.before.is_fitted
    /\ req.data.before.slope # instance.slope
    /\ instance.slope # 0 /\ instance.intercept # 0
====
